---- MODULE Spec2Model ----
(***************************************************************************)
(* Group swipe-consensus engine of dinder (GrubSwipe).                     *)
(*                                                                         *)
(* The Firestore collections are functions from document id to document.   *)
(* Every await of the service code is one atomic step of the calling       *)
(* client: a single-document read or write, or one query, is atomic at the *)
(* server, and the code between two awaits runs without interruption.      *)
(* Each user has one client, which runs at most one saveSwipe or           *)
(* saveRecipeSwipe call and at most one leaveGroup call at a time.         *)
(*                                                                         *)
(* Left out of the documents: the denormalised restaurant / recipe display *)
(* metadata and the swipe documents' server timestamp, which no code path  *)
(* modelled here reads.                                                    *)
(***************************************************************************)
EXTENDS Integers, Sequences, FiniteSets, TLC

VARIABLES
    swipes,          \* collection 'swipes':        swipeId -> document
    recipeSwipes,    \* collection 'recipeSwipes':  swipeId -> document
    matches,         \* collection 'matches':       matchId -> document
    recipeMatches,   \* collection 'recipeMatches': matchId -> document
    groups,          \* collection 'groups':        groupId -> document
    activeGroupId,   \* each client's state.userProfile.activeGroupId
    call,            \* each client's saveSwipe / saveRecipeSwipe call in flight
    leave,           \* each client's leaveGroup call in flight
    clock,           \* the server's clock, read by serverTimestamp()
    calls,           \* number of saveSwipe / saveRecipeSwipe calls started
    lastVote,        \* history: the votes committed per restaurant swipe key
    lastRecipeVote,  \* history: the votes committed per recipe swipe key
    log,             \* history: the match documents written, in order
    observed,        \* history: the calls that saw the threshold as met
    result,          \* history: what the last completed call returned
    rs,              \* requiredSwipes applied to an input on its own
    sharedDecks,     \* collection 'sharedDecks':   groupId -> document
    screen,          \* each client's recipe swiper: deck shown, its loading
    snapshots,       \* each matches listener: subscription, last delivery
    users,           \* collection 'users':         uid -> document
    pair             \* each client's createPairing / breakPairing in flight

vars == <<swipes, recipeSwipes, matches, recipeMatches, groups, activeGroupId,
          call, leave, clock, calls, lastVote, lastRecipeVote,
          log, observed, result, rs,
          sharedDecks, screen, snapshots, users, pair>>

store == <<swipes, recipeSwipes, matches, recipeMatches>>
membership == <<groups, activeGroupId, leave>>
history == <<lastVote, lastRecipeVote, log, observed, result>>
ext == <<sharedDecks, screen, snapshots, users, pair>>

-----------------------------------------------------------------------------
(* Bounds *)

MaxCalls == 3          \* saveSwipe / saveRecipeSwipe calls per behaviour
MaxSeqCalls == 4       \* saveSwipe calls per behaviour of SpecSeq
MaxGroupSize == 5      \* largest group of SpecSeq
MaxMemberCount == 60   \* largest input given to requiredSwipes on its own
MaxFixedSize == 3      \* largest group of SpecFixed
MaxFixedCalls == 4     \* saveSwipe calls per behaviour of SpecFixed

NULL == ""                          \* JavaScript null (falsy, like '')
Users == {"a", "b", "c", "d", "e", "z"}
Clients == {"a", "b", "c"}          \* the users acting in Spec
Movers == {"c"}                     \* those of them who join and leave
GroupIds == {"g"}
PlaceIds == {"p"}
RecipeIds == {7}
Directions == {"left", "right"}

-----------------------------------------------------------------------------
(* Firestore primitives *)

NoDocs == [id \in {} |-> NULL]

exists(coll, id) == id \in DOMAIN coll

\* setDoc(ref, data): create or overwrite the whole document
setDoc(coll, id, data) ==
    [k \in DOMAIN coll \cup {id} |-> IF k = id THEN data ELSE coll[k]]

\* setDoc(ref, fields, {merge: true}): create the document or overwrite the
\* named fields only
setDocMerge(coll, id, fields) ==
    LET old == IF id \in DOMAIN coll THEN coll[id] ELSE [f \in {} |-> NULL]
        new == [f \in DOMAIN old \cup DOMAIN fields |->
                   IF f \in DOMAIN fields THEN fields[f] ELSE old[f]]
    IN  setDoc(coll, id, new)

deleteDoc(coll, id) == [k \in DOMAIN coll \ {id} |-> coll[k]]

-----------------------------------------------------------------------------
(* Pure helpers of matching.js *)

Digit == <<"1", "2", "3", "4", "5", "6", "7", "8", "9">>

\* the template literal's conversion of a number to text
RECURSIVE NumStr(_)
NumStr(n) ==
    IF n = 0 THEN "0"
    ELSE IF n < 10 THEN Digit[n]
    ELSE NumStr(n \div 10) \o (IF n % 10 = 0 THEN "0" ELSE Digit[n % 10])

requiredSwipesLoose(memberCount) ==
    IF memberCount <= 4 THEN memberCount
    ELSE (memberCount \div 2) + 1

requiredSwipes(memberCount) ==
    IF memberCount <= 3 THEN memberCount       \* unanimous
    ELSE (memberCount \div 2) + 1              \* majority

swipeIdUnscoped(userId, groupId, placeId) ==
    userId \o "_" \o placeId

\* an id that is new for every call, as addDoc would give
swipeIdPerCall(userId, groupId, placeId) ==
    userId \o "_" \o (IF groupId # NULL THEN groupId ELSE "solo")
           \o "_" \o placeId \o "_" \o NumStr(Cardinality(DOMAIN swipes))

swipeId(userId, groupId, placeId) ==
    LET groupKey == IF groupId # NULL THEN groupId ELSE "solo"
    IN  userId \o "_" \o groupKey \o "_" \o placeId

recipeSwipeId(userId, groupId, recipeId) ==
    userId \o "_" \o (IF groupId = NULL THEN "null" ELSE groupId)
           \o "_" \o NumStr(recipeId)

matchId(groupId, placeId) == groupId \o "_" \o placeId

recipeMatchId(groupId, recipeId) == groupId \o "_recipe_" \o NumStr(recipeId)

\* Array.prototype.filter(m => m !== userId)
RECURSIVE without(_, _)
without(members, userId) ==
    IF members = <<>> THEN <<>>
    ELSE IF Head(members) = userId THEN without(Tail(members), userId)
    ELSE <<Head(members)>> \o without(Tail(members), userId)

UserOrder == <<"a", "b", "c", "d", "e", "z">>

Rank(u) == CHOOSE i \in 1..Len(UserOrder) : UserOrder[i] = u

\* Array.prototype.sort() of strings
RECURSIVE sort(_)
sort(members) ==
    IF members = <<>> THEN <<>>
    ELSE LET i == CHOOSE i \in 1..Len(members) :
                      \A j \in 1..Len(members) :
                          Rank(members[i]) <= Rank(members[j])
         IN  <<members[i]>> \o
             sort([k \in 1..(Len(members) - 1) |->
                      IF k < i THEN members[k] ELSE members[k + 1]])

Range(s) == {s[i] : i \in 1..Len(s)}

\* arrayUnion(uid) / arrayRemove(uid) applied to an array field
arrayUnion(arr, uid) == IF uid \in Range(arr) THEN arr ELSE Append(arr, uid)

arrayRemove(arr, uid) == without(arr, uid)

rightSwipesAnyDirection(memberId, placeId, groupId) ==
    {id \in DOMAIN swipes :
        /\ swipes[id].userId = memberId
        /\ swipes[id].placeId = placeId
        /\ swipes[id].groupId = groupId}

\* the tally query without its filter on the group
rightSwipesAnyGroup(memberId, placeId, groupId) ==
    {id \in DOMAIN swipes :
        /\ swipes[id].userId = memberId
        /\ swipes[id].placeId = placeId
        /\ swipes[id].direction = "right"}

\* the query of the tally loop: this member's right swipes on this place in
\* this group
rightSwipes(memberId, placeId, groupId) ==
    {id \in DOMAIN swipes :
        /\ swipes[id].userId = memberId
        /\ swipes[id].placeId = placeId
        /\ swipes[id].groupId = groupId
        /\ swipes[id].direction = "right"}

\* getSwipedPlaceIds with where('direction', '==', 'right') added
getSwipedPlaceIdsRightOnly(userId, groupId) ==
    {swipes[id].placeId :
        id \in {d \in DOMAIN swipes :
                    /\ swipes[d].userId = userId
                    /\ swipes[d].groupId = groupId
                    /\ swipes[d].direction = "right"}}

\* getSwipedPlaceIds: the places the user has swiped on in this scope
\* (groupId null: solo)
getSwipedPlaceIds(userId, groupId) ==
    {swipes[id].placeId :
        id \in {d \in DOMAIN swipes :
                    /\ swipes[d].userId = userId
                    /\ swipes[d].groupId = groupId}}

\* the query of saveRecipeSwipe without where('direction', '==', 'right')
rightRecipeSwipesAnyDirection(memberId, recipeId, groupId) ==
    {id \in DOMAIN recipeSwipes :
        /\ recipeSwipes[id].userId = memberId
        /\ recipeSwipes[id].recipeId = recipeId
        /\ recipeSwipes[id].groupId = groupId}

rightRecipeSwipes(memberId, recipeId, groupId) ==
    {id \in DOMAIN recipeSwipes :
        /\ recipeSwipes[id].userId = memberId
        /\ recipeSwipes[id].recipeId = recipeId
        /\ recipeSwipes[id].groupId = groupId
        /\ recipeSwipes[id].direction = "right"}

matchData(groupId, placeId, members, rightCount, now) ==
    [groupId |-> groupId,
     members |-> sort(members),
     memberCount |-> Len(members),
     rightCount |-> rightCount,
     unanimous |-> (rightCount = Len(members)),
     placeId |-> placeId,
     matchedAt |-> now,
     status |-> "active"]

recipeMatchData(groupId, recipeId, members, rightCount, now) ==
    [groupId |-> groupId,
     members |-> sort(members),
     memberCount |-> Len(members),
     rightCount |-> rightCount,
     unanimous |-> (rightCount = Len(members)),
     recipeId |-> recipeId,
     matchedAt |-> now,
     status |-> "active"]

\* the id createMatch would get from addDoc instead of a derived id
createMatchAutoId(coll, groupId, placeId, members, rightCount, now) ==
    setDoc(coll, "auto" \o NumStr(Cardinality(DOMAIN coll)),
           matchData(groupId, placeId, members, rightCount, now))

\* the 'matches' collection after createMatch
createMatch(coll, groupId, placeId, members, rightCount, now) ==
    setDoc(coll, matchId(groupId, placeId),
           matchData(groupId, placeId, members, rightCount, now))

\* the 'recipeMatches' collection after createRecipeMatch
createRecipeMatch(coll, groupId, recipeId, members, rightCount, now) ==
    setDoc(coll, recipeMatchId(groupId, recipeId),
           recipeMatchData(groupId, recipeId, members, rightCount, now))

-----------------------------------------------------------------------------
(* Client state *)

IdleCall ==
    [pc |-> "idle", fn |-> NULL, groupId |-> NULL, item |-> NULL,
     members |-> <<>>, otherMembers |-> <<>>, idx |-> 0, rightCount |-> 0,
     voters |-> {}, repeat |-> FALSE]

IdleLeave == [pc |-> "idle", groupId |-> NULL, data |-> NULL]

NoResult ==
    [by |-> NULL, fn |-> NULL, groupId |-> NULL, item |-> NULL, direction |-> NULL,
     thresholdMet |-> FALSE, existing |-> FALSE, value |-> NULL,
     group |-> "unread", memberCount |-> 0, failedAt |-> NULL,
     repeat |-> FALSE]

NoCallInFlight == \A u \in Users : call[u].pc = "idle"

\* the recipe swiper of a client.  recipes: the cards still to swipe; deck:
\* the list they were taken from; fetched: the list being loaded; closure: needsNewDeck as the running loadGroupDeck
\* captured it; cut: the members who had not swiped all of the deck that
\* this client's last saveSharedDeck replaced
IdleScreen ==
    [pc |-> "idle", recipes |-> <<>>, deck |-> <<>>, fetched |-> <<>>,
     needsNewDeck |-> FALSE, closure |-> FALSE, cut |-> {}]

\* a client's pairing.  profile: partnerUID of the profile the client holds
\* (state.userProfile); partner, todo: the arguments of the running
\* createPairing or breakPairing call and the user documents it has still
\* to update
IdlePair == [pc |-> "idle", profile |-> NULL, partner |-> NULL, todo |-> {}]

\* a client's matches listener.  open: subscribed to a query; list: the last
\* array handed to the callback; n: the callbacks of this subscription so
\* far; seen: the matches collection as it was at the last callback
NoListener ==
    [open |-> FALSE, groupId |-> NULL, list |-> <<>>, n |-> 0, seen |-> NoDocs]

\* the lists a fetch of recipes from Spoonacular may return
Decks == {<<7>>, <<8, 7>>}

\* the state of what the swipers do not touch
InitExt ==
    /\ sharedDecks = NoDocs
    /\ screen = [u \in Users |-> IdleScreen]
    /\ snapshots = [u \in Users |-> NoListener]
    /\ users = [u \in Users |-> [partnerUID |-> NULL]]
    /\ pair = [u \in Users |-> IdlePair]

LatestVote(userId, groupId, placeId) ==
    IF <<userId, groupId, placeId>> \in DOMAIN lastVote
    THEN lastVote[<<userId, groupId, placeId>>].direction ELSE "none"

LatestRecipeVote(userId, groupId, recipeId) ==
    IF <<userId, groupId, recipeId>> \in DOMAIN lastRecipeVote
    THEN lastRecipeVote[<<userId, groupId, recipeId>>].direction ELSE "none"

\* has this key ever held a right vote?
EverRight(votes, key) == key \in DOMAIN votes /\ votes[key].everRight

\* the vote history of a key after a vote in this direction is committed
Voted(votes, key, direction) ==
    setDoc(votes, key, [direction |-> direction,
                        everRight |-> (direction = "right"
                                       \/ EverRight(votes, key))])

\* the call of client u ends.  group: what its read of the group document
\* found ("unread", "missing" or "found"), with memberCount members;
\* failedAt: the step whose rejection the call throws, NULL when it returns
\* value
Ended(u, direction, thresholdMet, existing, value, group, memberCount, failedAt) ==
    /\ call' = [call EXCEPT ![u] = IdleCall]
    /\ result' = [by |-> u, fn |-> call[u].fn, groupId |-> call[u].groupId,
                  item |-> call[u].item, direction |-> direction,
                  thresholdMet |-> thresholdMet, existing |-> existing,
                  value |-> value, group |-> group,
                  memberCount |-> memberCount, failedAt |-> failedAt,
                  repeat |-> call[u].repeat]

\* the call of client u, which has read the group's members, returns value
Return(u, direction, thresholdMet, existing, value) ==
    Ended(u, direction, thresholdMet, existing, value, "found",
          Len(call[u].members), NULL)

\* is a call with these arguments the same call as the last completed one?
Repeats(u, fn, groupId, item, direction) ==
    /\ result.by = u
    /\ result.fn = fn
    /\ result.groupId = groupId
    /\ result.item = item
    /\ result.direction = direction
    /\ result.failedAt = NULL

\* the comparison with the threshold as rightCount > threshold
AfterTallyStrict(u, members, rightCount, voters) ==
    IF rightCount > requiredSwipes(Len(members))
    THEN /\ call' = [call EXCEPT ![u].pc = "getMatch",
                                 ![u].members = members,
                                 ![u].rightCount = rightCount,
                                 ![u].voters = voters]
         /\ observed' = observed \cup
                {[fn |-> call[u].fn, by |-> u, groupId |-> call[u].groupId,
                  id |-> IF call[u].fn = "saveSwipe"
                         THEN matchId(call[u].groupId, call[u].item)
                         ELSE recipeMatchId(call[u].groupId, call[u].item)]}
         /\ UNCHANGED result
    ELSE /\ Ended(u, "right", FALSE, FALSE, NULL, "found", Len(members),
                  NULL)
         /\ UNCHANGED observed

\* after the tally loop: go on to the existence check, or return null
AfterTally(u, members, rightCount, voters) ==
    IF rightCount >= requiredSwipes(Len(members))
    THEN /\ call' = [call EXCEPT ![u].pc = "getMatch",
                                 ![u].members = members,
                                 ![u].rightCount = rightCount,
                                 ![u].voters = voters]
         /\ observed' = observed \cup
                {[fn |-> call[u].fn, by |-> u, groupId |-> call[u].groupId,
                  id |-> IF call[u].fn = "saveSwipe"
                         THEN matchId(call[u].groupId, call[u].item)
                         ELSE recipeMatchId(call[u].groupId, call[u].item)]}
         /\ UNCHANGED result
    ELSE /\ Ended(u, "right", FALSE, FALSE, NULL, "found", Len(members),
                  NULL)
         /\ UNCHANGED observed

-----------------------------------------------------------------------------
(* saveSwipe *)

\* saveSwipe going on to the match check whatever the direction and scope
SaveSwipeAlwaysEvaluates(u, groupId, placeId, direction) ==
    /\ call[u].pc = "idle"
    /\ swipes' = setDoc(swipes, swipeId(u, groupId, placeId),
                        [userId |-> u, placeId |-> placeId,
                         groupId |-> groupId, direction |-> direction])
    /\ lastVote' = Voted(lastVote, <<u, groupId, placeId>>, direction)
    /\ calls' = calls + 1
    /\ call' = [call EXCEPT ![u] =
                    [IdleCall EXCEPT !.pc = "getGroup",
                                     !.fn = "saveSwipe",
                                     !.groupId = groupId,
                                     !.item = placeId]]
    /\ UNCHANGED <<recipeSwipes, matches, recipeMatches, membership, clock,
                   lastRecipeVote, log, observed, result, rs, ext>>

\* lines 39-58: write the swipe document; a left or solo swipe returns null
SaveSwipe(u, groupId, placeId, direction) ==
    /\ call[u].pc = "idle"
    /\ swipes' = setDoc(swipes, swipeId(u, groupId, placeId),
                        [userId |-> u, placeId |-> placeId,
                         groupId |-> groupId, direction |-> direction])
    /\ lastVote' = Voted(lastVote, <<u, groupId, placeId>>, direction)
    /\ calls' = calls + 1
    /\ IF direction = "right" /\ groupId # NULL
       THEN /\ call' = [call EXCEPT ![u] =
                           [IdleCall EXCEPT !.pc = "getGroup",
                                            !.fn = "saveSwipe",
                                            !.groupId = groupId,
                                            !.item = placeId,
                                            !.repeat =
                                                Repeats(u, "saveSwipe", groupId,
                                                        placeId, "right")]]
            /\ UNCHANGED result
       ELSE /\ call' = call
            /\ result' = [NoResult EXCEPT !.by = u,
                                           !.fn = "saveSwipe",
                                           !.groupId = groupId,
                                           !.item = placeId,
                                           !.direction = direction,
                                           !.repeat =
                                               Repeats(u, "saveSwipe", groupId,
                                                       placeId, direction)]
    /\ UNCHANGED <<recipeSwipes, matches, recipeMatches, membership, clock,
                   lastRecipeVote, log, observed, rs, ext>>

\* the group read without the check for fewer than two members
GetGroupNoMinimum(u, fn) ==
    /\ call[u].pc = "getGroup"
    /\ call[u].fn = fn
    /\ IF ~exists(groups, call[u].groupId)
       THEN Ended(u, "right", FALSE, FALSE, NULL, "missing", 0, NULL)
            /\ UNCHANGED observed
       ELSE LET members == groups[call[u].groupId].members
                otherMembers == without(members, u)
            IN  IF otherMembers = <<>>
                THEN AfterTally(u, members, 1, {u})
                ELSE /\ call' = [call EXCEPT ![u].pc = "tally",
                                             ![u].members = members,
                                             ![u].otherMembers = otherMembers,
                                             ![u].idx = 1,
                                             ![u].rightCount = 1,
                                             ![u].voters = {u}]
                     /\ UNCHANGED <<result, observed>>
    /\ UNCHANGED <<store, membership, clock, calls, lastVote, lastRecipeVote,
                   log, rs, ext>>

\* the group read without the check that the document exists: reading the
\* members of a missing document's data throws
GetGroupUnchecked(u, fn) ==
    /\ call[u].pc = "getGroup"
    /\ call[u].fn = fn
    /\ IF ~exists(groups, call[u].groupId)
       THEN Ended(u, "right", FALSE, FALSE, NULL, "missing", 0, "getGroup")
            /\ UNCHANGED observed
       ELSE LET members == groups[call[u].groupId].members
                otherMembers == without(members, u)
            IN  IF Len(members) < 2
                THEN Ended(u, "right", FALSE, FALSE, NULL, "found",
                           Len(members), NULL)
                     /\ UNCHANGED observed
                ELSE IF otherMembers = <<>>
                THEN AfterTally(u, members, 1, {u})
                ELSE /\ call' = [call EXCEPT ![u].pc = "tally",
                                             ![u].members = members,
                                             ![u].otherMembers = otherMembers,
                                             ![u].idx = 1,
                                             ![u].rightCount = 1,
                                             ![u].voters = {u}]
                     /\ UNCHANGED <<result, observed>>
    /\ UNCHANGED <<store, membership, clock, calls, lastVote, lastRecipeVote,
                   log, rs, ext>>

\* lines 59-70 (saveSwipe) and 224-235 (saveRecipeSwipe): read the group
\* document, give up on a missing group or fewer than two members, and
\* start the count at 1 for the current user
GetGroup(u, fn) ==
    /\ call[u].pc = "getGroup"
    /\ call[u].fn = fn
    /\ IF ~exists(groups, call[u].groupId)
       THEN Ended(u, "right", FALSE, FALSE, NULL, "missing", 0, NULL)
            /\ UNCHANGED observed
       ELSE LET members == groups[call[u].groupId].members
                otherMembers == without(members, u)
            IN  IF Len(members) < 2
                THEN Ended(u, "right", FALSE, FALSE, NULL, "found",
                           Len(members), NULL)
                     /\ UNCHANGED observed
                ELSE IF otherMembers = <<>>
                THEN AfterTally(u, members, 1, {u})
                ELSE /\ call' = [call EXCEPT ![u].pc = "tally",
                                             ![u].members = members,
                                             ![u].otherMembers = otherMembers,
                                             ![u].idx = 1,
                                             ![u].rightCount = 1,
                                             ![u].voters = {u}]
                     /\ UNCHANGED <<result, observed>>
    /\ UNCHANGED <<store, membership, clock, calls, lastVote, lastRecipeVote,
                   log, rs, ext>>

\* one query of the tally loop and, after the last one, the comparison with
\* the threshold; hit: the query's snapshot is not empty
TallyStep(u, memberId, hit) ==
    LET c == call[u]
        rightCount == IF hit THEN c.rightCount + 1 ELSE c.rightCount
        voters == IF hit THEN c.voters \cup {memberId} ELSE c.voters
    IN  /\ IF c.idx < Len(c.otherMembers)
           THEN /\ call' = [call EXCEPT ![u].idx = c.idx + 1,
                                        ![u].rightCount = rightCount,
                                        ![u].voters = voters]
                /\ UNCHANGED <<result, observed>>
           ELSE AfterTally(u, c.members, rightCount, voters)
        /\ UNCHANGED <<store, membership, clock, calls, lastVote,
                       lastRecipeVote, log, rs, ext>>

\* lines 72-87
Tally(u) ==
    /\ call[u].pc = "tally"
    /\ call[u].fn = "saveSwipe"
    /\ LET c == call[u]
           memberId == c.otherMembers[c.idx]
       IN  TallyStep(u, memberId,
                     rightSwipes(memberId, c.item, c.groupId) # {})

\* lines 89-90: has this match been created already?
GetMatch(u) ==
    /\ call[u].pc = "getMatch"
    /\ call[u].fn = "saveSwipe"
    /\ IF exists(matches, matchId(call[u].groupId, call[u].item))
       THEN Return(u, "right", TRUE, TRUE, NULL)
       ELSE /\ call' = [call EXCEPT ![u].pc = "createMatch"]
            /\ UNCHANGED result
    /\ UNCHANGED <<store, membership, clock, calls, lastVote, lastRecipeVote,
                   log, observed, rs, ext>>

\* the members of a snapshot whose latest stored vote is right
RightNow(members, groupId, placeId) ==
    {m \in Range(members) : LatestVote(m, groupId, placeId) = "right"}

RightRecipeNow(members, groupId, recipeId) ==
    {m \in Range(members) : LatestRecipeVote(m, groupId, recipeId) = "right"}

\* what the log keeps of a write of a match document
Written(u, coll, id, doc, rightNow, everRight) ==
    [fn |-> call[u].fn, by |-> u, id |-> id, doc |-> doc,
     existed |-> exists(coll, id),
     members |-> call[u].members,
     voters |-> call[u].voters,
     rightNow |-> rightNow,
     everRight |-> everRight]

\* lines 91-92, 103-126: write the match document and return it
CreateMatch(u) ==
    /\ call[u].pc = "createMatch"
    /\ call[u].fn = "saveSwipe"
    /\ LET c == call[u]
           id == matchId(c.groupId, c.item)
       IN  /\ matches' = createMatch(matches, c.groupId, c.item, c.members,
                                     c.rightCount, clock)
           /\ log' = Append(log,
                  Written(u, matches, id,
                          matchData(c.groupId, c.item, c.members,
                                    c.rightCount, clock),
                          RightNow(c.members, c.groupId, c.item),
                          {m \in Range(c.members) :
                              EverRight(lastVote, <<m, c.groupId, c.item>>)}))
           /\ Return(u, "right", TRUE, FALSE, id)
    /\ clock' = clock + 1
    /\ UNCHANGED <<swipes, recipeSwipes, recipeMatches, membership, calls,
                   lastVote, lastRecipeVote, observed, rs, ext>>

\* line 191
UpdateMatchStatus(id, status) ==
    /\ matches' = setDocMerge(matches, id, [status |-> status])
    /\ UNCHANGED <<swipes, recipeSwipes, recipeMatches, membership, call,
                   clock, calls, history, rs, ext>>

-----------------------------------------------------------------------------
(* saveSwipe when Firestore fails.  saveSwipe has no try / catch and no      *)
(* timeout: a rejected await throws out of the call, and an await that is   *)
(* never settled is never resumed.                                          *)

EvaluationSteps == {"getGroup", "tally", "getMatch", "createMatch"}
ReadSteps == {"getGroup", "tally", "getMatch"}

\* a failed swipe write that saveSwipe would swallow, going on as if the
\* document had been written
SaveSwipeFailureIgnored(u, groupId, placeId, direction) ==
    /\ call[u].pc = "idle"
    /\ calls' = calls + 1
    /\ IF direction = "right" /\ groupId # NULL
       THEN /\ call' = [call EXCEPT ![u] =
                           [IdleCall EXCEPT !.pc = "getGroup",
                                            !.fn = "saveSwipe",
                                            !.groupId = groupId,
                                            !.item = placeId]]
            /\ UNCHANGED result
       ELSE /\ call' = call
            /\ result' = [NoResult EXCEPT !.by = u,
                                           !.fn = "saveSwipe",
                                           !.groupId = groupId,
                                           !.item = placeId,
                                           !.direction = direction]
    /\ UNCHANGED <<store, membership, clock, lastVote, lastRecipeVote, log,
                   observed, rs, ext>>

\* lines 44-55 with the setDoc rejected: nothing is stored and the call
\* throws
SaveSwipeFails(u, groupId, placeId, direction) ==
    /\ call[u].pc = "idle"
    /\ calls' = calls + 1
    /\ result' = [NoResult EXCEPT !.by = u,
                                   !.fn = "saveSwipe",
                                   !.groupId = groupId,
                                   !.item = placeId,
                                   !.direction = direction,
                                   !.failedAt = "setDoc"]
    /\ UNCHANGED <<store, membership, call, clock, lastVote, lastRecipeVote,
                   log, observed, rs, ext>>

\* how a call ends when the await it is at is rejected
Thrown(u) ==
    Ended(u, "right", call[u].pc \in {"getMatch", "createMatch"}, FALSE, NULL,
          IF call[u].pc = "getGroup" THEN "unread" ELSE "found",
          Len(call[u].members), call[u].pc)

\* a failed evaluation that would undo the vote of its call
FailRollsBack(u) ==
    /\ call[u].pc \in EvaluationSteps
    /\ call[u].fn = "saveSwipe"
    /\ Thrown(u)
    /\ swipes' = deleteDoc(swipes, swipeId(u, call[u].groupId, call[u].item))
    /\ UNCHANGED <<recipeSwipes, matches, recipeMatches, membership, clock,
                   calls, lastVote, lastRecipeVote, log, observed, rs, ext>>

\* lines 59-92 with the await of the current step rejected: the group read,
\* a tally query, the match read or the match write; the call throws
Fail(u) ==
    /\ call[u].pc \in EvaluationSteps
    /\ call[u].fn = "saveSwipe"
    /\ Thrown(u)
    /\ UNCHANGED <<store, membership, clock, calls, lastVote, lastRecipeVote,
                   log, observed, rs, ext>>

\* lines 59-89 with the read of the current step never answered: the call
\* stays at its await
ReadNeverResponds(u) ==
    /\ call[u].pc \in ReadSteps
    /\ call[u].fn = "saveSwipe"
    /\ call' = [call EXCEPT ![u].pc = "waiting"]
    /\ UNCHANGED <<store, membership, clock, calls, history, rs, ext>>

-----------------------------------------------------------------------------
(* saveRecipeSwipe *)

\* lines 209-223: write the recipe swipe document; a left swipe returns null
SaveRecipeSwipe(u, groupId, recipeId, direction) ==
    /\ call[u].pc = "idle"
    /\ recipeSwipes' = setDoc(recipeSwipes,
                              recipeSwipeId(u, groupId, recipeId),
                              [userId |-> u, recipeId |-> recipeId,
                               groupId |-> groupId, direction |-> direction])
    /\ lastRecipeVote' = Voted(lastRecipeVote, <<u, groupId, recipeId>>,
                               direction)
    /\ calls' = calls + 1
    /\ IF direction = "right" /\ groupId # NULL
       THEN /\ call' = [call EXCEPT ![u] =
                           [IdleCall EXCEPT !.pc = "getGroup",
                                            !.fn = "saveRecipeSwipe",
                                            !.groupId = groupId,
                                            !.item = recipeId,
                                            !.repeat =
                                                Repeats(u, "saveRecipeSwipe",
                                                        groupId, recipeId,
                                                        "right")]]
            /\ UNCHANGED result
       ELSE /\ call' = call
            /\ result' = [NoResult EXCEPT !.by = u,
                                           !.fn = "saveRecipeSwipe",
                                           !.groupId = groupId,
                                           !.item = recipeId,
                                           !.direction = direction,
                                           !.repeat =
                                               Repeats(u, "saveRecipeSwipe",
                                                       groupId, recipeId,
                                                       direction)]
    /\ UNCHANGED <<swipes, matches, recipeMatches, membership, clock,
                   lastVote, log, observed, rs, sharedDecks, snapshots,
                   users, pair>>

\* lines 237-252
RecipeTally(u) ==
    /\ call[u].pc = "tally"
    /\ call[u].fn = "saveRecipeSwipe"
    /\ LET c == call[u]
           memberId == c.otherMembers[c.idx]
       IN  TallyStep(u, memberId,
                     rightRecipeSwipes(memberId, c.item, c.groupId) # {})

\* lines 253-255: has this recipe match been created already?
GetRecipeMatch(u) ==
    /\ call[u].pc = "getMatch"
    /\ call[u].fn = "saveRecipeSwipe"
    /\ IF exists(recipeMatches, recipeMatchId(call[u].groupId, call[u].item))
       THEN Return(u, "right", TRUE, TRUE, NULL)
       ELSE /\ call' = [call EXCEPT ![u].pc = "createMatch"]
            /\ UNCHANGED result
    /\ UNCHANGED <<store, membership, clock, calls, lastVote, lastRecipeVote,
                   log, observed, rs, ext>>

\* lines 256-257, 268-294: write the recipe match document and return it
CreateRecipeMatch(u) ==
    /\ call[u].pc = "createMatch"
    /\ call[u].fn = "saveRecipeSwipe"
    /\ LET c == call[u]
           id == recipeMatchId(c.groupId, c.item)
       IN  /\ recipeMatches' = createRecipeMatch(recipeMatches, c.groupId,
                                   c.item, c.members, c.rightCount, clock)
           /\ log' = Append(log,
                  Written(u, recipeMatches, id,
                          recipeMatchData(c.groupId, c.item, c.members,
                                          c.rightCount, clock),
                          RightRecipeNow(c.members, c.groupId, c.item),
                          {m \in Range(c.members) :
                              EverRight(lastRecipeVote,
                                        <<m, c.groupId, c.item>>)}))
           /\ Return(u, "right", TRUE, FALSE, id)
    /\ clock' = clock + 1
    /\ UNCHANGED <<swipes, recipeSwipes, matches, membership, calls,
                   lastVote, lastRecipeVote, observed, rs, ext>>

\* line 313
UpdateRecipeMatchStatus(id, status) ==
    /\ recipeMatches' = setDocMerge(recipeMatches, id, [status |-> status])
    /\ UNCHANGED <<swipes, recipeSwipes, matches, membership, call, clock,
                   calls, history, rs, ext>>

-----------------------------------------------------------------------------
(* The shared recipe deck (SwipeScreen, services/groups) *)

\* getSwipedRecipeIds: the recipes the user has swiped on in this group
getSwipedRecipeIds(userId, groupId) ==
    {recipeSwipes[id].recipeId :
        id \in {d \in DOMAIN recipeSwipes :
                    /\ recipeSwipes[d].userId = userId
                    /\ recipeSwipes[d].groupId = groupId}}

\* recipes.filter(r => !swipedIds.includes(r.id))
RECURSIVE notSwiped(_, _)
notSwiped(recipes, swipedIds) ==
    IF recipes = <<>> THEN <<>>
    ELSE IF Head(recipes) \in swipedIds THEN notSwiped(Tail(recipes), swipedIds)
    ELSE <<Head(recipes)>> \o notSwiped(Tail(recipes), swipedIds)

\* the 'sharedDecks' collection after saveSharedDeck
saveSharedDeck(coll, groupId, recipes) ==
    setDoc(coll, groupId, [groupId |-> groupId, recipes |-> recipes])

\* the members of the group who have not swiped on every recipe of its deck
Unfinished(groupId) ==
    IF ~exists(sharedDecks, groupId) \/ ~exists(groups, groupId) THEN {}
    ELSE {m \in Range(groups[groupId].members) :
             notSwiped(sharedDecks[groupId].recipes,
                       getSwipedRecipeIds(m, groupId)) # <<>>}

ScreenFrame ==
    UNCHANGED <<store, membership, call, clock, calls, history, rs,
                snapshots, users, pair>>

\* the effect that runs loadGroupDeck when the screen is mounted in group
\* mode
LoadGroupDeck(u) ==
    /\ screen[u].pc = "idle"
    /\ screen[u].deck = <<>>
    /\ activeGroupId[u] # NULL
    /\ screen' = [screen EXCEPT ![u].pc = "getSharedDeck",
                                ![u].closure = screen[u].needsNewDeck]
    /\ UNCHANGED sharedDecks
    /\ ScreenFrame

\* loadGroupDeck lines 161-163: read the group's deck
GetSharedDeck(u) ==
    /\ screen[u].pc = "getSharedDeck"
    /\ LET g == activeGroupId[u]
       IN  IF /\ exists(sharedDecks, g)
              /\ Len(sharedDecks[g].recipes) > 0
              /\ ~screen[u].closure
           THEN screen' = [screen EXCEPT ![u].pc = "getSwiped",
                                         ![u].fetched = sharedDecks[g].recipes]
           ELSE screen' = [screen EXCEPT ![u].pc = "fetch"]
    /\ UNCHANGED sharedDecks
    /\ ScreenFrame

\* loadGroupDeck lines 165-176: show what is left of the deck, or go on to
\* generate a new one when all of it is swiped
ShowSharedDeck(u) ==
    /\ screen[u].pc = "getSwiped"
    /\ LET remaining == notSwiped(screen[u].fetched,
                             getSwipedRecipeIds(u, activeGroupId[u]))
       IN  IF Len(remaining) > 0
           THEN screen' = [screen EXCEPT ![u].pc = "idle",
                                         ![u].recipes = remaining,
                                         ![u].deck = screen[u].fetched,
                                         ![u].fetched = <<>>]
           ELSE screen' = [screen EXCEPT ![u].pc = "fetch",
                                         ![u].fetched = <<>>]
    /\ UNCHANGED sharedDecks
    /\ ScreenFrame

\* generateNewDeck lines 197-207: fetch recipes
FetchRecipes(u) ==
    /\ screen[u].pc = "fetch"
    /\ \E fetched \in Decks :
           screen' = [screen EXCEPT ![u].pc = "saveSharedDeck",
                                    ![u].fetched = fetched]
    /\ UNCHANGED sharedDecks
    /\ ScreenFrame

\* generateNewDeck line 210: store the fetched list as the group's deck
SaveSharedDeck(u) ==
    /\ screen[u].pc = "saveSharedDeck"
    /\ sharedDecks' = saveSharedDeck(sharedDecks, activeGroupId[u],
                                     screen[u].fetched)
    /\ screen' = [screen EXCEPT ![u].pc = "showNew",
                                ![u].cut = Unfinished(activeGroupId[u])]
    /\ ScreenFrame

\* generateNewDeck lines 213-218: show the new deck
ShowNewDeck(u) ==
    /\ screen[u].pc = "showNew"
    /\ LET fetched == screen[u].fetched
           remaining == notSwiped(fetched,
                             getSwipedRecipeIds(u, activeGroupId[u]))
       IN  screen' = [screen EXCEPT ![u].pc = "idle",
                                    ![u].recipes = IF Len(remaining) > 0
                                                   THEN remaining ELSE fetched,
                                    ![u].deck = fetched,
                                    ![u].fetched = <<>>,
                                    ![u].needsNewDeck = FALSE]
    /\ UNCHANGED sharedDecks
    /\ ScreenFrame

\* onSwipedRight / onSwipedLeft on the top card of the shown deck and, when
\* it was the last card, onSwipedAll: needsNewDeck is set and loadGroupDeck
\* is called as the current render built it, with needsNewDeck as it was
OnDeckSwiped(u) ==
    /\ screen[u].pc = "idle"
    /\ screen[u].recipes # <<>>
    /\ activeGroupId[u] # NULL
    /\ \E direction \in Directions :
           SaveRecipeSwipe(u, activeGroupId[u], Head(screen[u].recipes),
                           direction)
    /\ screen' =
           IF Tail(screen[u].recipes) = <<>>
           THEN [screen EXCEPT ![u].pc = "getSharedDeck",
                               ![u].recipes = <<>>,
                               ![u].needsNewDeck = TRUE,
                               ![u].closure = screen[u].needsNewDeck]
           ELSE [screen EXCEPT ![u].recipes = Tail(screen[u].recipes)]

-----------------------------------------------------------------------------
(* The matches listener (listenToMatches; listenToRecipeMatches is the same *)
(* code on the collection 'recipeMatches')                                  *)

\* orderBy('matchedAt', 'desc'), and snapshot.docs.map(d => ({id, ...data}))
RECURSIVE byMatchedAtDesc(_, _)
byMatchedAtDesc(coll, ids) ==
    IF ids = {} THEN <<>>
    ELSE LET first == CHOOSE id \in ids :
                          \A other \in ids :
                              coll[other].matchedAt <= coll[id].matchedAt
         IN  <<[id |-> first] @@ coll[first]>>
                 \o byMatchedAtDesc(coll, ids \ {first})

\* the query without where('status', '==', 'active')
matchesQueryAnyStatus(coll, groupId) ==
    byMatchedAtDesc(coll,
        {id \in DOMAIN coll :
            /\ {"groupId", "matchedAt"} \subseteq DOMAIN coll[id]
            /\ coll[id].groupId = groupId})

\* lines 138-143: a document without one of the fields is in no result
matchesQuery(coll, groupId) ==
    byMatchedAtDesc(coll,
        {id \in DOMAIN coll :
            /\ {"groupId", "status", "matchedAt"} \subseteq DOMAIN coll[id]
            /\ coll[id].groupId = groupId
            /\ coll[id].status = "active"})

ListenerFrame ==
    UNCHANGED <<store, membership, call, clock, calls, history, rs,
                sharedDecks, screen, users, pair>>

\* listenToMatches(groupId, callback), up to its return
ListenToMatches(u, groupId) ==
    /\ ~snapshots[u].open
    /\ snapshots' = [snapshots EXCEPT ![u] =
           IF groupId = NULL
           THEN [open |-> FALSE, groupId |-> NULL, list |-> <<>>, n |-> 1,
                 seen |-> matches]
           ELSE [open |-> TRUE, groupId |-> groupId, list |-> <<>>, n |-> 0,
                 seen |-> NoDocs]]
    /\ ListenerFrame

\* the onSnapshot callback: the first result of the query, and then every
\* changed one
OnSnapshot(u) ==
    /\ snapshots[u].open
    /\ LET docs == matchesQuery(matches, snapshots[u].groupId)
       IN  /\ snapshots[u].n = 0 \/ docs # snapshots[u].list
           /\ snapshots' = [snapshots EXCEPT ![u].list = docs,
                                              ![u].n = @ + 1,
                                              ![u].seen = matches]
    /\ ListenerFrame

\* the function onSnapshot returned
Unsubscribe(u) ==
    /\ snapshots[u].open
    /\ snapshots' = [snapshots EXCEPT ![u] = NoListener]
    /\ ListenerFrame

-----------------------------------------------------------------------------
(* Pairing (services/pairing, InviteScreen, the settings screen) *)

PairFrame ==
    UNCHANGED <<store, membership, call, clock, calls, history, rs,
                sharedDecks, screen, snapshots>>

\* the auth listener and the screens' refreshes: getUserProfile, then
\* SET_USER_PROFILE
LoadProfile(u) ==
    /\ pair[u].pc = "idle"
    /\ pair[u].profile # users[u].partnerUID
    /\ pair' = [pair EXCEPT ![u].profile = users[u].partnerUID]
    /\ UNCHANGED users
    /\ PairFrame

\* handlePair up to the call of createPairing.  The invite screen is offered
\* while the profile held has no partner; one's own code and the code of a
\* user who has a partner are turned down
HandlePair(u, partner) ==
    /\ pair[u].pc = "idle"
    /\ pair[u].profile = NULL
    /\ partner # u
    /\ users[partner].partnerUID = NULL
    /\ pair' = [pair EXCEPT ![u].pc = "createPairing",
                            ![u].partner = partner,
                            ![u].todo = {u, partner}]
    /\ UNCHANGED users
    /\ PairFrame

\* handleUnpair up to the call of breakPairing, with the partner of the
\* profile held
HandleUnpair(u) ==
    /\ pair[u].pc = "idle"
    /\ pair[u].profile # NULL
    /\ pair' = [pair EXCEPT ![u].pc = "breakPairing",
                            ![u].partner = pair[u].profile,
                            ![u].todo = {u, pair[u].profile}]
    /\ UNCHANGED users
    /\ PairFrame

\* one of the two updateDoc calls of Promise.all, in either order; after
\* the second, breakPairing's caller clears the partner of the profile held
UpdatePartner(u) ==
    /\ pair[u].pc \in {"createPairing", "breakPairing"}
    /\ \E target \in pair[u].todo :
           LET other == IF target = u THEN pair[u].partner ELSE u
               last == pair[u].todo = {target}
           IN  /\ users' = [users EXCEPT ![target].partnerUID =
                                IF pair[u].pc = "createPairing" THEN other
                                ELSE NULL]
               /\ pair' = [pair EXCEPT ![u] =
                      IF ~last THEN [@ EXCEPT !.todo = @ \ {target}]
                      ELSE IF pair[u].pc = "createPairing"
                           THEN [@ EXCEPT !.pc = "getUserProfile", !.todo = {}]
                           ELSE IdlePair]
    /\ PairFrame

\* handlePair lines 1140-1141: the profile is read again
PairedProfile(u) ==
    /\ pair[u].pc = "getUserProfile"
    /\ pair' = [pair EXCEPT ![u] =
                    [IdlePair EXCEPT !.profile = users[u].partnerUID]]
    /\ UNCHANGED users
    /\ PairFrame

-----------------------------------------------------------------------------
(* Group membership (services/groups) *)

\* handleJoin: joinGroup, then setActiveGroup on the joining client; a user
\* the group already lists only sets it active
JoinGroup(u, groupId) ==
    /\ exists(groups, groupId)
    /\ groups' = [groups EXCEPT ![groupId] =
                     [members |-> arrayUnion(@.members, u),
                      memberNames |-> @.memberNames \cup {u}]]
    /\ activeGroupId' = [activeGroupId EXCEPT ![u] = groupId]
    /\ UNCHANGED <<store, call, leave, clock, calls, history, rs, ext>>

\* handleLeave up to leaveGroup's read of the group document.  sameClient:
\* the user leaves on the client they swipe with, which then clears its
\* active group first; on another device of the user the swiping client's
\* activeGroupId stays as it is.
LeaveGroupRead(u, groupId, sameClient) ==
    /\ leave[u].pc = "idle"
    /\ activeGroupId' =
           IF sameClient /\ activeGroupId[u] = groupId
           THEN [activeGroupId EXCEPT ![u] = NULL] ELSE activeGroupId
    /\ leave' = IF exists(groups, groupId)
                THEN [leave EXCEPT ![u] = [pc |-> "write",
                                           groupId |-> groupId,
                                           data |-> groups[groupId]]]
                ELSE leave
    /\ UNCHANGED <<store, groups, call, clock, calls, history, rs, ext>>

\* leaveGroup lines 114-129: delete the group, or remove the member.
\* updateDoc on a document that no longer exists throws and changes nothing.
LeaveGroupWrite(u) ==
    /\ leave[u].pc = "write"
    /\ LET groupId == leave[u].groupId
           data == leave[u].data
           remaining == without(data.members, u)
       IN  groups' =
               IF Len(remaining) = 0 THEN deleteDoc(groups, groupId)
               ELSE IF ~exists(groups, groupId) THEN groups
               ELSE [groups EXCEPT ![groupId] =
                        [members |-> arrayRemove(@.members, u),
                         memberNames |-> data.memberNames \ {u}]]
    /\ leave' = [leave EXCEPT ![u] = IdleLeave]
    /\ UNCHANGED <<store, activeGroupId, call, clock, calls,
                   history, rs, ext>>

-----------------------------------------------------------------------------
(* requiredSwipes on its own *)

ApplyRequiredSwipes ==
    /\ rs.pc = "in"
    /\ rs' = [rs EXCEPT !.pc = "out", !.out = requiredSwipes(rs.n)]
    /\ UNCHANGED <<store, membership, call, clock, calls, history, ext>>

-----------------------------------------------------------------------------
(* The screens' handlers *)

\* handleSwipe: the restaurant swiper, in group mode or solo
HandleSwipe(u) ==
    \E groupId \in {NULL, activeGroupId[u]}, placeId \in PlaceIds,
       direction \in Directions :
        SaveSwipe(u, groupId, placeId, direction)

\* handleSwipe in group mode
HandleGroupSwipe(u) ==
    /\ activeGroupId[u] # NULL
    /\ \E placeId \in PlaceIds, direction \in Directions :
           SaveSwipe(u, activeGroupId[u], placeId, direction)

\* onSwipedRight / onSwipedLeft of the recipe swiper, in group mode
OnRecipeSwiped(u) ==
    /\ activeGroupId[u] # NULL
    /\ \E recipeId \in RecipeIds, direction \in Directions :
           SaveRecipeSwipe(u, activeGroupId[u], recipeId, direction)
    /\ UNCHANGED screen

\* handleMarkVisited, on a match the screen lists (an active one)
MarkVisited ==
    \E id \in DOMAIN matches :
        /\ matches[id].status = "active"
        /\ UpdateMatchStatus(id, "visited")

\* the meal plan screen's 'cooked', on a listed (active) recipe match
MarkCooked ==
    \E id \in DOMAIN recipeMatches :
        /\ recipeMatches[id].status = "active"
        /\ UpdateRecipeMatchStatus(id, "cooked")

\* handleSetActive: make one of the user's groups the active one, or none
HandleSetActive(u) ==
    \E groupId \in {g \in DOMAIN groups : u \in Range(groups[g].members)}
                    \cup {NULL} :
        /\ activeGroupId[u] # groupId
        /\ activeGroupId' = [activeGroupId EXCEPT ![u] = groupId]
        /\ UNCHANGED <<store, groups, call, leave, clock, calls, history, rs, ext>>

\* handleSwipe when the swipe write is rejected: the error is caught and
\* logged
HandleSwipeWriteFails(u) ==
    \E groupId \in {NULL, activeGroupId[u]}, placeId \in PlaceIds,
       direction \in Directions :
        SaveSwipeFails(u, groupId, placeId, direction)

HandleJoin(u) ==
    \E groupId \in GroupIds : JoinGroup(u, groupId)

\* the groups screen lists the groups whose members include the user
HandleLeave(u) ==
    \E groupId \in DOMAIN groups, sameClient \in BOOLEAN :
        /\ u \in Range(groups[groupId].members)
        /\ LeaveGroupRead(u, groupId, sameClient)

-----------------------------------------------------------------------------
(* Spec: the restaurant swiper under concurrency.  Three clients and one   *)
(* group, created by a and joined by b, who stay; c joins and leaves, any  *)
(* number of times.                                                        *)

InitWith(members, active) ==
    /\ swipes = NoDocs
    /\ recipeSwipes = NoDocs
    /\ matches = NoDocs
    /\ recipeMatches = NoDocs
    /\ groups = [g \in GroupIds |->
                    [members |-> members, memberNames |-> Range(members)]]
    /\ activeGroupId = [u \in Users |-> IF u \in active THEN "g" ELSE NULL]
    /\ call = [u \in Users |-> IdleCall]
    /\ leave = [u \in Users |-> IdleLeave]
    /\ clock = 1
    /\ calls = 0
    /\ lastVote = NoDocs
    /\ lastRecipeVote = NoDocs
    /\ log = <<>>
    /\ observed = {}
    /\ result = NoResult
    /\ InitExt

Init ==
    /\ InitWith(<<"a", "b">>, {"a", "b"})
    /\ rs = [pc |-> "off", n |-> 0, out |-> 0]

Next ==
    \/ MarkVisited
    \/ \E u \in Clients :
        \/ calls < MaxCalls /\ HandleSwipe(u)
        \/ GetGroup(u, "saveSwipe")
        \/ Tally(u)
        \/ GetMatch(u)
        \/ CreateMatch(u)
    \/ \E u \in Movers :
        \/ HandleJoin(u)
        \/ HandleLeave(u)
        \/ LeaveGroupWrite(u)

Spec == Init /\ [][Next]_vars

-----------------------------------------------------------------------------
(* SpecSwipers: both swipers under concurrency, the membership fixed: a    *)
(* and b in the group, c swiping solo.                                     *)

NextSwipers ==
    \/ MarkVisited
    \/ MarkCooked
    \/ \E u \in Clients :
        \/ calls < MaxCalls /\ HandleSwipe(u)
        \/ GetGroup(u, "saveSwipe")
        \/ Tally(u)
        \/ GetMatch(u)
        \/ CreateMatch(u)
        \/ calls < MaxCalls /\ OnRecipeSwiped(u)
        \/ GetGroup(u, "saveRecipeSwipe")
        \/ RecipeTally(u)
        \/ GetRecipeMatch(u)
        \/ CreateRecipeMatch(u)

SpecSwipers == Init /\ [][NextSwipers]_vars

-----------------------------------------------------------------------------
(* SpecSeq: saveSwipe calls that do not overlap, on a group with a fixed   *)
(* set of 2..MaxGroupSize members.  z left the group earlier; its client   *)
(* still has the group active.                                             *)

InitSeq ==
    /\ \E n \in 2..MaxGroupSize :
           InitWith(SubSeq(UserOrder, 1, n),
                    Range(SubSeq(UserOrder, 1, n)) \cup {"z"})
    /\ rs = [pc |-> "off", n |-> 0, out |-> 0]

NextSeq ==
    \E u \in Users :
        \/ calls < MaxSeqCalls /\ NoCallInFlight /\ HandleGroupSwipe(u)
        \/ GetGroup(u, "saveSwipe")
        \/ Tally(u)
        \/ GetMatch(u)
        \/ CreateMatch(u)

SpecSeq == InitSeq /\ [][NextSeq]_vars

-----------------------------------------------------------------------------
(* SpecLeavers: a group that shrinks.  a and b are its members and may     *)
(* leave, on the client they swipe with or on another device, while they   *)
(* go on swiping in group mode: the group comes to have one member, none   *)
(* (two leaveGroup calls that both read two members), or is deleted.       *)

Leavers == {"a", "b"}

NextLeavers ==
    \E u \in Leavers :
        \/ calls < MaxCalls /\ HandleGroupSwipe(u)
        \/ GetGroup(u, "saveSwipe")
        \/ Tally(u)
        \/ GetMatch(u)
        \/ CreateMatch(u)
        \/ HandleLeave(u)
        \/ LeaveGroupWrite(u)

SpecLeavers == Init /\ [][NextLeavers]_vars

-----------------------------------------------------------------------------
(* SpecScopes: two groups with the same two members, who switch between    *)
(* them and solo swiping.                                                  *)

InitScopes ==
    /\ swipes = NoDocs
    /\ recipeSwipes = NoDocs
    /\ matches = NoDocs
    /\ recipeMatches = NoDocs
    /\ groups = [g \in {"g", "h"} |->
                    [members |-> <<"a", "b">>, memberNames |-> {"a", "b"}]]
    /\ activeGroupId = [u \in Users |-> IF u \in {"a", "b"} THEN "g" ELSE NULL]
    /\ call = [u \in Users |-> IdleCall]
    /\ leave = [u \in Users |-> IdleLeave]
    /\ clock = 1
    /\ calls = 0
    /\ lastVote = NoDocs
    /\ lastRecipeVote = NoDocs
    /\ log = <<>>
    /\ observed = {}
    /\ result = NoResult
    /\ rs = [pc |-> "off", n |-> 0, out |-> 0]
    /\ InitExt

NextScopes ==
    \E u \in Leavers :
        \/ calls < MaxCalls /\ HandleSwipe(u)
        \/ GetGroup(u, "saveSwipe")
        \/ Tally(u)
        \/ GetMatch(u)
        \/ CreateMatch(u)
        \/ HandleSetActive(u)

SpecScopes == InitScopes /\ [][NextScopes]_vars

-----------------------------------------------------------------------------
(* SpecFaulty: the restaurant swiper of SpecSwipers when any Firestore      *)
(* operation of saveSwipe may be rejected and any of its reads may stay     *)
(* unanswered.  SpecFaultyLive adds that a call whose await has been        *)
(* settled goes on.                                                         *)

Proceed(u) ==
    \/ GetGroup(u, "saveSwipe")
    \/ Tally(u)
    \/ GetMatch(u)
    \/ CreateMatch(u)

NextFaulty ==
    \E u \in Clients :
        \/ calls < MaxCalls /\ HandleSwipe(u)
        \/ calls < MaxCalls /\ HandleSwipeWriteFails(u)
        \/ Proceed(u)
        \/ Fail(u)
        \/ ReadNeverResponds(u)

SpecFaulty == Init /\ [][NextFaulty]_vars

SpecFaultyLive == SpecFaulty /\ \A u \in Clients : WF_vars(Proceed(u))

-----------------------------------------------------------------------------
(* SpecFixed: concurrent votes of the members of a group with a fixed set  *)
(* of 1..MaxFixedSize members, nothing failing.                            *)

InitFixed ==
    /\ \E n \in 1..MaxFixedSize :
           InitWith(SubSeq(UserOrder, 1, n), Range(SubSeq(UserOrder, 1, n)))
    /\ rs = [pc |-> "off", n |-> 0, out |-> 0]

NextFixed ==
    \E u \in Clients :
        \/ calls < MaxFixedCalls /\ HandleGroupSwipe(u)
        \/ GetGroup(u, "saveSwipe")
        \/ Tally(u)
        \/ GetMatch(u)
        \/ CreateMatch(u)

SpecFixed == InitFixed /\ [][NextFixed]_vars

-----------------------------------------------------------------------------
(* SpecDeck: the two members of a group in the recipe swiper's group mode. *)

NextDeck ==
    \E u \in Leavers :
        \/ LoadGroupDeck(u)
        \/ GetSharedDeck(u)
        \/ ShowSharedDeck(u)
        \/ FetchRecipes(u)
        \/ SaveSharedDeck(u)
        \/ ShowNewDeck(u)
        \/ calls < MaxCalls /\ OnDeckSwiped(u)
        \/ GetGroup(u, "saveRecipeSwipe")
        \/ RecipeTally(u)
        \/ GetRecipeMatch(u)
        \/ CreateRecipeMatch(u)

SpecDeck == Init /\ [][NextDeck]_vars

-----------------------------------------------------------------------------
(* SpecListen: the two groups of SpecScopes, whose members swipe one call   *)
(* after the other, always with one of the groups active, and mark matches *)
(* visited, and a client that listens to the matches of its active group,  *)
(* or to no group.                                                          *)

Listeners == {"a"}

NextListen ==
    \/ \E u \in Leavers :
           \/ calls < MaxSeqCalls /\ NoCallInFlight /\ HandleGroupSwipe(u)
           \/ GetGroup(u, "saveSwipe")
           \/ Tally(u)
           \/ GetMatch(u)
           \/ CreateMatch(u)
           \/ HandleSetActive(u) /\ activeGroupId'[u] # NULL
    \/ MarkVisited
    \/ \E u \in Listeners :
           \/ \E groupId \in {NULL, activeGroupId[u]} :
                  ListenToMatches(u, groupId)
           \/ OnSnapshot(u)
           \/ Unsubscribe(u)

SpecListen == InitScopes /\ [][NextListen]_vars

-----------------------------------------------------------------------------
(* SpecTwin: the members of a group with a fixed set of 1..MaxFixedSize     *)
(* members cast votes one after the other, and every vote is given to       *)
(* saveSwipe, on the place, and then to saveRecipeSwipe, on the recipe.     *)

MaxTwinVotes == 3

\* the recipe that stands for the place in the replayed vote
TwinRecipe == CHOOSE recipeId \in RecipeIds : TRUE
TwinPlace == CHOOSE placeId \in PlaceIds : TRUE

\* a member votes: saveSwipe
TwinVote(u) ==
    /\ NoCallInFlight
    /\ result.fn # "saveSwipe"
    /\ calls < 2 * MaxTwinVotes
    /\ u \in Range(groups["g"].members)
    /\ \E direction \in Directions : SaveSwipe(u, "g", TwinPlace, direction)

\* the same vote again: saveRecipeSwipe
TwinReplay ==
    /\ NoCallInFlight
    /\ result.fn = "saveSwipe"
    /\ SaveRecipeSwipe(result.by, result.groupId, TwinRecipe, result.direction)
    /\ UNCHANGED screen

NextTwin ==
    \/ TwinReplay
    \/ \E u \in Clients :
           \/ TwinVote(u)
           \/ GetGroup(u, "saveSwipe")
           \/ Tally(u)
           \/ GetMatch(u)
           \/ CreateMatch(u)
           \/ GetGroup(u, "saveRecipeSwipe")
           \/ RecipeTally(u)
           \/ GetRecipeMatch(u)
           \/ CreateRecipeMatch(u)

SpecTwin == InitFixed /\ [][NextTwin]_vars

-----------------------------------------------------------------------------
(* SpecMembers: the membership of the group created by a and joined by b,   *)
(* with nobody swiping: every client may join the group and leave it.       *)

NextMembers ==
    \E u \in Clients :
        \/ HandleJoin(u)
        \/ HandleLeave(u)
        \/ LeaveGroupWrite(u)

SpecMembers == Init /\ [][NextMembers]_vars

-----------------------------------------------------------------------------
(* SpecPairing: three users pair and unpair with one another.               *)

NextPairing ==
    \E u \in Clients :
        \/ LoadProfile(u)
        \/ \E partner \in Clients : HandlePair(u, partner)
        \/ HandleUnpair(u)
        \/ UpdatePartner(u)
        \/ PairedProfile(u)

SpecPairing == Init /\ [][NextPairing]_vars

-----------------------------------------------------------------------------
(* SpecStatus: the two members of the group swipe in group mode in both     *)
(* swipers while updateMatchStatus and updateRecipeMatchStatus are called   *)
(* with the id of any match the group may come to have, stored or not.      *)

MatchIds == {matchId(groupId, placeId) : groupId \in GroupIds, placeId \in PlaceIds}

RecipeMatchIds == {recipeMatchId(groupId, recipeId) : groupId \in GroupIds, recipeId \in RecipeIds}

NextStatus ==
    \/ \E id \in MatchIds : UpdateMatchStatus(id, "visited")
    \/ \E id \in RecipeMatchIds : UpdateRecipeMatchStatus(id, "cooked")
    \/ \E u \in Leavers :
           \/ calls < MaxCalls /\ HandleGroupSwipe(u)
           \/ GetGroup(u, "saveSwipe")
           \/ Tally(u)
           \/ GetMatch(u)
           \/ CreateMatch(u)
           \/ calls < MaxCalls /\ OnRecipeSwiped(u)
           \/ GetGroup(u, "saveRecipeSwipe")
           \/ RecipeTally(u)
           \/ GetRecipeMatch(u)
           \/ CreateRecipeMatch(u)

SpecStatus == Init /\ [][NextStatus]_vars

-----------------------------------------------------------------------------
(* SpecRequired: requiredSwipes applied to each member count up to         *)
(* MaxMemberCount.                                                         *)

InitRequired ==
    /\ InitWith(<<"a", "b">>, {"a", "b"})
    /\ \E n \in 0..MaxMemberCount : rs = [pc |-> "in", n |-> n, out |-> 0]

NextRequired == ApplyRequiredSwipes

SpecRequired == InitRequired /\ [][NextRequired]_vars

-----------------------------------------------------------------------------
(* Properties *)

\* the match documents of a group and place
MatchesFor(groupId, placeId) ==
    {id \in DOMAIN matches :
        /\ "groupId" \in DOMAIN matches[id]
        /\ matches[id].groupId = groupId
        /\ matches[id].placeId = placeId}

\* the clients whose saveSwipe saw the threshold of this match as met
ObserversOf(id) ==
    {o.by : o \in {x \in observed : x.fn = "saveSwipe" /\ x.id = id}}

LogIndex == 1..Len(log)

\* C1: once all calls have completed, a (group, place) whose threshold two
\* or more clients saw as met has exactly one match document
C1_ExactlyOneMatchAfterRace ==
    NoCallInFlight =>
        \A g \in GroupIds, p \in PlaceIds :
            Cardinality(ObserversOf(matchId(g, p))) >= 2 =>
                Cardinality(MatchesFor(g, p)) = 1

\* two clients both wrote the match of one (group, place): both passed the
\* existence check before either wrote
C1_Witness ==
    /\ NoCallInFlight
    /\ \E i, j \in LogIndex :
           /\ i < j
           /\ log[i].id = log[j].id
           /\ log[i].by # log[j].by
           /\ log[j].existed
           /\ Cardinality(ObserversOf(log[i].id)) >= 2

\* C2: a match document is written only when it does not exist yet, so no
\* call ever writes an existing match document again
C2_CreateIfAbsent ==
    \A i \in LogIndex : ~log[i].existed

\* C3: a call that meets the threshold and finds the match document already
\* there returns that document, not null
C3_ReturnsExistingMatch ==
    (result.thresholdMet /\ result.existing) => result.value # NULL

\* C4: when a match document is written, at least requiredSwipes(memberCount)
\* of the snapshotted members have right as their latest stored vote
C4_ThresholdHoldsAtWrite ==
    \A i \in LogIndex :
        Cardinality(log[i].rightNow) >= requiredSwipes(log[i].doc.memberCount)

\* the number of members whose latest vote on (groupId, placeId) is right
RightMembers(groupId, placeId) ==
    Cardinality(RightNow(groups[groupId].members, groupId, placeId))

\* C5: with calls that do not overlap and a fixed membership, between calls
\* a met threshold has its match; the match was written once, by a vote
\* after which the members voting right met the threshold, and it records
\* their number as rightCount and unanimous = (rightCount = n)
C5_SequentialMatch ==
    NoCallInFlight =>
        \A g \in GroupIds, p \in PlaceIds :
            LET n == Len(groups[g].members)
                writes == {i \in LogIndex : log[i].id = matchId(g, p)}
            IN  /\ RightMembers(g, p) >= requiredSwipes(n) =>
                       exists(matches, matchId(g, p))
                /\ Cardinality(writes) <= 1
                /\ \A i \in writes :
                       /\ Cardinality(log[i].rightNow) >= requiredSwipes(n)
                       /\ log[i].doc.rightCount = Cardinality(log[i].rightNow)
                       /\ log[i].doc.unanimous = (log[i].doc.rightCount = n)

\* C6: requiredSwipes(n) is n for n in {2, 3} and floor(n / 2) + 1 from 4 on
C6_RequiredSwipes ==
    rs.pc = "out" =>
        /\ rs.n \in {2, 3} => rs.out = rs.n
        /\ rs.n >= 4 => rs.out = (rs.n \div 2) + 1

\* a majority threshold below the member count has been computed
C6_Witness ==
    rs.pc = "out" /\ rs.n >= 4 /\ rs.out < rs.n

\* the member a tally in progress queries next
NextTallied(u) == call[u].otherMembers[call[u].idx]

\* has this member voted right and then left on the call's (group, place)?
Flipped(u, m) ==
    /\ EverRight(lastVote, <<m, call[u].groupId, call[u].item>>)
    /\ LatestVote(m, call[u].groupId, call[u].item) = "left"

\* C7: the tally query of a member who voted right and then left on the
\* same (group, place) comes back empty, so the member is not counted
C7_FlippedMemberNotCounted ==
    \A u \in Users :
        (call[u].pc = "tally" /\ call[u].fn = "saveSwipe") =>
            (Flipped(u, NextTallied(u)) =>
                rightSwipes(NextTallied(u), call[u].item, call[u].groupId)
                    = {})

\* an evaluation is about to query a member who voted right and then left
C7_Witness ==
    \E u \in Users :
        /\ call[u].pc = "tally"
        /\ call[u].fn = "saveSwipe"
        /\ Flipped(u, NextTallied(u))

\* C8: each swipe key that was voted on has exactly one document, holding
\* the direction of the last vote committed for the key, and there are no
\* other documents; in both ledgers
C8_OneSwipePerKey ==
    /\ \A key \in DOMAIN lastVote :
           LET docs == {id \in DOMAIN swipes :
                           /\ swipes[id].userId = key[1]
                           /\ swipes[id].groupId = key[2]
                           /\ swipes[id].placeId = key[3]}
           IN  /\ Cardinality(docs) = 1
               /\ \A id \in docs :
                      swipes[id].direction = lastVote[key].direction
    /\ Cardinality(DOMAIN swipes) = Cardinality(DOMAIN lastVote)
    /\ \A key \in DOMAIN lastRecipeVote :
           LET docs == {id \in DOMAIN recipeSwipes :
                           /\ recipeSwipes[id].userId = key[1]
                           /\ recipeSwipes[id].groupId = key[2]
                           /\ recipeSwipes[id].recipeId = key[3]}
           IN  /\ Cardinality(docs) = 1
               /\ \A id \in docs :
                      recipeSwipes[id].direction = lastRecipeVote[key].direction
    /\ Cardinality(DOMAIN recipeSwipes) = Cardinality(DOMAIN lastRecipeVote)

\* a user has voted on one place both solo and in the group, and has
\* replaced the right vote in the group by a left one
C8_Witness ==
    /\ \E u \in Users, p \in PlaceIds :
           /\ <<u, NULL, p>> \in DOMAIN lastVote
           /\ <<u, "g", p>> \in DOMAIN lastVote
           /\ lastVote[<<u, "g", p>>].everRight
           /\ lastVote[<<u, "g", p>>].direction = "left"

\* C9: every match document written has rightCount <= memberCount, and the
\* votes counted toward it are votes of members of the snapshot
C9_OnlyMembersCounted ==
    \A i \in LogIndex :
        /\ log[i].doc.rightCount <= log[i].doc.memberCount
        /\ log[i].voters \subseteq Range(log[i].members)

\* C10: every match document written has memberCount = the size of its
\* members snapshot and rightCount >= requiredSwipes(memberCount); if it
\* says unanimous, every member of the snapshot has voted right, and if
\* every member's latest vote is right, it says unanimous
C10_MatchRecordConsistent ==
    \A i \in LogIndex :
        LET doc == log[i].doc
        IN  /\ doc.memberCount = Len(doc.members)
            /\ doc.rightCount >= requiredSwipes(doc.memberCount)
            /\ doc.unanimous => Range(doc.members) \subseteq log[i].everRight
            /\ Range(doc.members) \subseteq log[i].rightNow => doc.unanimous

\* the swipe document the last completed call wrote is still a right vote
LastVoteKept ==
    /\ exists(swipes, swipeId(result.by, result.groupId, result.item))
    /\ swipes[swipeId(result.by, result.groupId, result.item)].direction
           = "right"

\* C11: a right vote evaluated on a group whose member list has 0 or 1
\* entries returns null without creating a match, and no match document is
\* ever written from a list of fewer than two members
C11_NoMatchBelowTwoMembers ==
    /\ (result.group = "found" /\ result.memberCount < 2) =>
           /\ ~result.thresholdMet
           /\ result.value = NULL
           /\ result.failedAt = NULL
    /\ \A i \in LogIndex :
           Len(log[i].members) >= 2 /\ log[i].doc.memberCount >= 2

\* a right vote has been evaluated on a group that had a single member
\* left, that member's right vote being stored
C11_Witness ==
    /\ result.fn = "saveSwipe"
    /\ result.group = "found"
    /\ result.memberCount = 1
    /\ exists(groups, result.groupId)
    /\ \E m \in Range(groups[result.groupId].members) :
           LatestVote(m, result.groupId, result.item) = "right"

\* C18: a right vote evaluated when the group document does not exist
\* returns null without an error, creates no match, and its swipe document
\* stays
C18_MissingGroupReturnsNull ==
    result.group = "missing" =>
        /\ result.failedAt = NULL
        /\ result.value = NULL
        /\ ~result.thresholdMet
        /\ LastVoteKept

\* a right vote has been evaluated after the group was deleted
C18_Witness ==
    /\ result.fn = "saveSwipe"
    /\ result.direction = "right"
    /\ result.group = "missing"
    /\ ~exists(groups, result.groupId)

\* the latest vote of the caller of a call in flight on the call's key
CallerVote(u) ==
    IF call[u].fn = "saveSwipe"
    THEN LatestVote(u, call[u].groupId, call[u].item)
    ELSE LatestRecipeVote(u, call[u].groupId, call[u].item)

\* C12: only a right vote in a group goes on to match evaluation: a call in
\* flight after its swipe write is a right vote in a group, a left or solo
\* call returns null without reading the group, every match belongs to a
\* group, and no group's tally query returns a solo swipe document
C12_LeftOrSoloLeavesMatches ==
    /\ \A u \in Users :
           call[u].pc # "idle" =>
               call[u].groupId # NULL /\ CallerVote(u) = "right"
    /\ (result.by # NULL /\ (result.direction = "left"
                              \/ result.groupId = NULL)) =>
           /\ result.group = "unread"
           /\ ~result.thresholdMet
           /\ result.value = NULL
    /\ \A id \in DOMAIN matches : matches[id].groupId \in GroupIds
    /\ \A id \in DOMAIN recipeMatches :
           recipeMatches[id].groupId \in GroupIds
    /\ \A id \in DOMAIN swipes :
           swipes[id].groupId = NULL =>
               \A m \in Users, g \in GroupIds :
                   id \notin rightSwipes(m, swipes[id].placeId, g)

\* a member's left vote has returned while the other member's right vote is
\* stored and no match exists, and somebody's solo right vote is stored
C12_Witness ==
    /\ result.direction = "left"
    /\ result.groupId \in GroupIds
    /\ result.fn = "saveSwipe"
    /\ \E m \in Range(groups[result.groupId].members) \ {result.by} :
           LatestVote(m, result.groupId, result.item) = "right"
    /\ matches = NoDocs
    /\ \E u \in Users, p \in PlaceIds : LatestVote(u, NULL, p) = "right"

\* C13: a saveSwipe call with the arguments of the call completed just
\* before it leaves the swipe ledger as that call left it, and a (group,
\* place) never has more than one match document
C13_RepeatedSwipeIdempotent ==
    /\ [](\A g \in GroupIds, p \in PlaceIds :
              Cardinality(MatchesFor(g, p)) <= 1)
    /\ [][\A u \in Users, p \in PlaceIds, d \in Directions :
              (/\ NoCallInFlight
               /\ Repeats(u, "saveSwipe", activeGroupId[u], p, d)
               /\ SaveSwipe(u, activeGroupId[u], p, d))
                  => swipes' = swipes]_vars

\* the right vote that created a match has been cast a second time, and the
\* second call has completed
C13_Witness ==
    /\ NoCallInFlight
    /\ result.repeat
    /\ result.fn = "saveSwipe"
    /\ result.direction = "right"
    /\ result.thresholdMet
    /\ \E i \in LogIndex : log[i].by = result.by
    /\ Cardinality(MatchesFor(result.groupId, result.item)) = 1

Scopes == DOMAIN groups \cup {NULL}

\* C14: what is read about a place in one scope is a function of the votes
\* cast in that scope alone.  getSwipedPlaceIds gives the places the user
\* voted on in the scope, a tally query finds a member exactly when the
\* member's latest vote in the group is right, and the other members counted
\* toward a match have voted right in the match's group; so two executions
\* that differ only in the votes of another scope read the same
C14_ScopeIsolation ==
    /\ \A u \in Users, scope \in Scopes :
           getSwipedPlaceIds(u, scope) =
               {p \in PlaceIds : <<u, scope, p>> \in DOMAIN lastVote}
    /\ \A u \in Users, g \in DOMAIN groups, p \in PlaceIds :
           (rightSwipes(u, p, g) # {}) <=> (LatestVote(u, g, p) = "right")
    /\ \A i \in LogIndex :
           log[i].fn = "saveSwipe" =>
               \A m \in log[i].voters \ {log[i].by} :
                   EverRight(lastVote,
                             <<m, log[i].doc.groupId, log[i].doc.placeId>>)

\* a member's right vote in one group has been evaluated without a match
\* while the other member has voted right on the place in the other group
\* and solo, but not in this group
C14_Witness ==
    /\ result.fn = "saveSwipe"
    /\ result.direction = "right"
    /\ result.groupId \in DOMAIN groups
    /\ result.group = "found"
    /\ ~result.thresholdMet
    /\ \E m \in Range(groups[result.groupId].members) \ {result.by} :
           /\ LatestVote(m, NULL, result.item) = "right"
           /\ \E h \in DOMAIN groups \ {result.groupId} :
                  LatestVote(m, h, result.item) = "right"
           /\ result.item \in getSwipedPlaceIds(m, NULL)
           /\ result.item \notin getSwipedPlaceIds(m, result.groupId)

\* C15: a call whose swipe write failed throws at that point, having read no
\* group or tally data and met no threshold; every call that is evaluating
\* has its right vote stored
C15_FailedWriteStopsCall ==
    /\ result.failedAt = "setDoc" =>
           /\ result.group = "unread"
           /\ ~result.thresholdMet
           /\ result.value = NULL
    /\ \A u \in Users :
           call[u].pc # "idle" =>
               /\ exists(swipes, swipeId(u, call[u].groupId, call[u].item))
               /\ swipes[swipeId(u, call[u].groupId, call[u].item)].direction
                      = "right"

\* the write of a member's first right vote in the group has failed while
\* the other member's right vote is stored, and there is no match
C15_Witness ==
    /\ NoCallInFlight
    /\ result.failedAt = "setDoc"
    /\ result.direction = "right"
    /\ result.groupId \in GroupIds
    /\ LatestVote(result.by, result.groupId, result.item) = "none"
    /\ \E m \in Range(groups[result.groupId].members) \ {result.by} :
           LatestVote(m, result.groupId, result.item) = "right"
    /\ matches = NoDocs

\* C16: after a call has thrown from its group read, a tally query, the
\* match read or the match write, the swipe document it wrote is still in
\* the ledger, with its right vote
C16_FailedEvaluationKeepsVote ==
    result.failedAt \in EvaluationSteps => LastVoteKept

\* a call has thrown from its match write
C16_Witness ==
    /\ result.failedAt = "createMatch"
    /\ result.thresholdMet
    /\ LastVoteKept

\* C17: a call whose swipe write succeeded completes normally: no failure
\* of its evaluation makes it throw
C17_EvaluationFailureNotThrown ==
    result.failedAt \notin EvaluationSteps

\* C20: every saveSwipe call terminates, also when a read of its evaluation
\* is never answered
C20_CallTerminates ==
    \A u \in Clients : (call[u].pc # "idle") ~> (call[u].pc = "idle")

\* the (group, place) pairs whose threshold the members' latest votes meet
ThresholdMet ==
    {gp \in (DOMAIN groups) \X PlaceIds :
        RightMembers(gp[1], gp[2])
            >= requiredSwipes(Len(groups[gp[1]].members))}

\* C19 as stated: once no call is in flight, every (group, place) on which
\* at least requiredSwipes(n) members' latest votes are right has a match
C19_MetThresholdHasMatch ==
    NoCallInFlight =>
        \A gp \in ThresholdMet : exists(matches, matchId(gp[1], gp[2]))

\* C19 for groups of two or more members: once no call is in flight, every
\* (group, place) of such a group on which at least requiredSwipes(n)
\* members' latest votes are right has a match
C19_MetThresholdHasMatchFromTwo ==
    NoCallInFlight =>
        \A gp \in ThresholdMet :
            Len(groups[gp[1]].members) >= 2 =>
                exists(matches, matchId(gp[1], gp[2]))

\* the right votes of the members of a group of three overlapped: more than
\* one call saw the threshold as met, one of them wrote the match, and all
\* have completed
C19_Witness ==
    /\ NoCallInFlight
    /\ \E gp \in ThresholdMet :
           /\ Len(groups[gp[1]].members) = 3
           /\ Cardinality(ObserversOf(matchId(gp[1], gp[2]))) >= 2
           /\ Len(log) = 1
           /\ exists(matches, matchId(gp[1], gp[2]))

ScreensIdle == \A u \in Users : screen[u].pc = "idle"

\* C21: a member who has swiped on every recipe of the group's deck
\* overwrites it only when every other member has done so too
C21_DeckReplacedWhenAllDone ==
    \A u \in Users : u \notin screen[u].cut => screen[u].cut = {}

\* C22: once no load is in progress, the list each member was shown is the
\* deck stored for the group; stated for the first decks, before anybody
\* has swiped
C22_MembersSeeStoredDeck ==
    (ScreensIdle /\ recipeSwipes = NoDocs) =>
        \A u \in Users :
            screen[u].deck # <<>> =>
                screen[u].deck = sharedDecks[activeGroupId[u]].recipes

-----------------------------------------------------------------------------
\* the ids of the documents of a delivered list
ListedIds(list) == {list[i].id : i \in 1..Len(list)}

\* C23: every array the matches listener hands to its callback for group g
\* holds each document of the collection with groupId = g and status
\* 'active', once, with its id and data, and no other document; without a
\* group id the callback gets the empty array once and nothing stays
\* subscribed
C23_SnapshotIsActiveMatchesOfGroup ==
    \A u \in Users :
        LET l == snapshots[u]
        IN  l.n > 0 =>
                IF l.groupId = NULL
                THEN l.list = <<>> /\ l.n = 1 /\ ~l.open
                ELSE /\ ListedIds(l.list) =
                            {id \in DOMAIN l.seen :
                                /\ l.seen[id].groupId = l.groupId
                                /\ l.seen[id].status = "active"}
                     /\ Len(l.list) = Cardinality(ListedIds(l.list))
                     /\ \A i \in 1..Len(l.list) :
                            l.list[i] =
                                [id |-> l.list[i].id] @@ l.seen[l.list[i].id]

\* a snapshot for g lists g's active match while the store also holds h's
\* match, marked visited; and a listener without a group got its empty list
C23_Witness ==
    \E u \in Users :
        /\ snapshots[u].groupId = "g"
        /\ snapshots[u].n > 0
        /\ Len(snapshots[u].list) = 1
        /\ \E id \in DOMAIN snapshots[u].seen :
               /\ snapshots[u].seen[id].groupId = "h"
               /\ snapshots[u].seen[id].status = "visited"

-----------------------------------------------------------------------------
\* every vote cast so far has been through both functions
BothReturned == NoCallInFlight /\ result.fn # "saveSwipe"

\* the consensus fields of a match document
Consensus(doc) ==
    [groupId |-> doc.groupId, members |-> doc.members,
     memberCount |-> doc.memberCount, rightCount |-> doc.rightCount,
     unanimous |-> doc.unanimous, status |-> doc.status]

\* C24: when the same votes of the members of a group have gone, in the same
\* order, through saveSwipe on a place and through saveRecipeSwipe on a
\* recipe, the recipe match exists exactly if the restaurant match does, and
\* the two carry the same members, memberCount, rightCount and unanimous
C24_SameConsensusForBothPayloads ==
    BothReturned =>
        \A groupId \in DOMAIN groups :
            LET id == matchId(groupId, TwinPlace)
                recipeId == recipeMatchId(groupId, TwinRecipe)
            IN  /\ exists(matches, id) <=> exists(recipeMatches, recipeId)
                /\ exists(matches, id) =>
                       Consensus(matches[id]) =
                           Consensus(recipeMatches[recipeId])
                /\ DOMAIN matches \subseteq {id}
                /\ DOMAIN recipeMatches \subseteq {recipeId}

\* both matches exist, and a member has since changed the vote to left in
\* both stores
C24_Witness ==
    /\ BothReturned
    /\ exists(matches, matchId("g", TwinPlace))
    /\ exists(recipeMatches, recipeMatchId("g", TwinRecipe))
    /\ \E u \in Users :
           /\ LatestVote(u, "g", TwinPlace) = "left"
           /\ LatestRecipeVote(u, "g", TwinRecipe) = "left"

-----------------------------------------------------------------------------
\* C25: getSwipedPlaceIds(u, scope) is the set of places on which u has a
\* committed vote, right or left, in that scope and no other; the place of a
\* call that has written its swipe is in it while the call evaluates and
\* after the evaluation has failed
C25_VotedItemsOfScope ==
    /\ \A u \in Users, scope \in Scopes :
           getSwipedPlaceIds(u, scope) =
               {p \in PlaceIds : LatestVote(u, scope, p) \in Directions}
    /\ \A u \in Users :
           call[u].pc # "idle" /\ call[u].fn = "saveSwipe" =>
               call[u].item \in getSwipedPlaceIds(u, call[u].groupId)
    /\ result.fn = "saveSwipe" /\ result.failedAt \in EvaluationSteps =>
           result.item \in getSwipedPlaceIds(result.by, result.groupId)

\* the evaluation of a member's right vote in the group has failed:
\* the place is among the member's voted places of the group and not of the
\* solo scope, and for a user who voted left on it solo only it is the
\* other way round
C25_Witness ==
    /\ result.fn = "saveSwipe"
    /\ result.failedAt \in EvaluationSteps
    /\ result.groupId # NULL
    /\ result.item \in getSwipedPlaceIds(result.by, result.groupId)
    /\ result.item \notin getSwipedPlaceIds(result.by, NULL)
    /\ \E m \in Users \ {result.by} :
           /\ LatestVote(m, NULL, result.item) = "left"
           /\ result.item \in getSwipedPlaceIds(m, NULL)
           /\ result.item \notin getSwipedPlaceIds(m, result.groupId)

-----------------------------------------------------------------------------
\* no saveSwipe, saveRecipeSwipe or leaveGroup call is running
Settled == NoCallInFlight /\ \A u \in Users : leave[u].pc = "idle"

\* C26: while members join and leave, whenever every call has completed a
\* match exists for each place on which the current members of a group of
\* two or more whose latest vote is right number at least
\* requiredSwipes(current member count)
C26_MatchFollowsMembership ==
    Settled =>
        \A g \in DOMAIN groups, p \in PlaceIds :
            LET n == Len(groups[g].members)
            IN  n >= 2 /\ RightMembers(g, p) >= requiredSwipes(n) =>
                    exists(matches, matchId(g, p))

-----------------------------------------------------------------------------
\* C27: when no leaveGroup call is running, every group document has a
\* member
C27_NoEmptyGroupRemains ==
    (\A u \in Users : leave[u].pc = "idle") =>
        \A g \in DOMAIN groups : Len(groups[g].members) > 0

-----------------------------------------------------------------------------
\* C28: in every group document the keys of memberNames are the members,
\* and no member is listed twice
C28_MemberNamesAreMembers ==
    \A g \in DOMAIN groups :
        /\ groups[g].memberNames = Range(groups[g].members)
        /\ Len(groups[g].members) = Cardinality(Range(groups[g].members))

\* the joiner's case of C28 alone: every member has a name entry
C28_EveryMemberNamed ==
    \A g \in DOMAIN groups :
        Range(groups[g].members) \subseteq groups[g].memberNames

-----------------------------------------------------------------------------
\* C29: when no createPairing or breakPairing call is running, the partner
\* relation is symmetric: A's partnerUID is B only if B's is A
C29_PartnerSymmetric ==
    (\A u \in Users : pair[u].pc = "idle") =>
        \A a \in Users, b \in Users :
            users[a].partnerUID = b => users[b].partnerUID = a

-----------------------------------------------------------------------------
\* C30: every document of the match stores was written by a vote evaluation
\* of its swiper, whatever ids the status updates were called with
C30_StatusUpdateCreatesNoMatch ==
    /\ \A id \in DOMAIN matches :
           \E i \in LogIndex : log[i].fn = "saveSwipe" /\ log[i].id = id
    /\ \A id \in DOMAIN recipeMatches :
           \E i \in LogIndex : log[i].fn = "saveRecipeSwipe" /\ log[i].id = id

\* the second half of C30: a call that met the threshold leaves a match
\* document that carries the group
C30_MetThresholdLeavesRealMatch ==
    (result.fn = "saveSwipe" /\ result.thresholdMet) =>
        /\ exists(matches, matchId(result.groupId, result.item))
        /\ "groupId" \in DOMAIN matches[matchId(result.groupId, result.item)]

====
